---- MODULE Spec2Model ----
(***************************************************************************)
(* VulkanHostDisplay (src/frontend-common/vulkan_host_display.cpp): the    *)
(* swap chain life cycle, Render's acquire/retry logic, the screenshot     *)
(* read-back and the post-processing chain, as a state machine.  Every     *)
(* public method is one action; what the Vulkan driver and the external    *)
(* collaborators (Vulkan::SwapChain, Vulkan::Context, Vulkan::Texture,     *)
(* PostProcessingChain, ImGui) answer is drawn with \E from small sets.    *)
(* `trace` holds the calls the last method made on those collaborators,    *)
(* in program order.                                                       *)
(***************************************************************************)
EXTENDS Integers, Sequences, FiniteSets, TLC

\* ------------------------------------------------------------------ bounds
MaxSurfaceDim == 2      \* surface widths the window system reports: 1..MaxSurfaceDim
NumImages == 2          \* images of a swap chain: indices 0..NumImages-1
MaxStages == 2          \* longest post-processing chain a config parses to
MaxShotWidth == 2       \* RenderScreenshot's width: 1..MaxShotWidth
MaxShotHeight == 1      \* RenderScreenshot's height: 1..MaxShotHeight
MaxOldPixels == 1       \* longest out_pixels vector handed to RenderScreenshot

VARIABLES
  alive,                          \* "alive", "destroyed" (destructor ran), "aborted" (Panic)
  g_vulkan_context,               \* BOOLEAN: the global context exists
  m_swap_chain,                   \* SwapChain record, exists = FALSE for a null pointer
  m_window_info,                  \* WindowInfo record
  m_display_texture,              \* BOOLEAN: HasDisplayTexture()
  m_post_processing_chain,        \* Seq of shaders: [push |-> UsePushConstants()]
  m_post_processing_stages,       \* Seq of PostProcessingStage records
  m_post_processing_input_texture,\* Texture record (with m_post_processing_input_framebuffer)
  m_post_processing_ubo,          \* BOOLEAN: the uniform stream buffer holds UBO_SIZE bytes
  surface_format,                 \* the VkFormat the surface gives its swap chains
  out_pixels, out_stride, out_format, \* RenderScreenshot's output parameters
  call,                           \* the last method called and its arguments
  ret,                            \* its return value (TRUE for void methods)
  trace,                          \* the collaborator calls it made, in order
  chain_trace,                    \* the part of trace ApplyPostProcessingChain recorded
  surface_lost,                   \* history: Render dropped the swap chain after a surface loss
  device,                         \* the physical device of the adapter Context::Create picks
  m_is_adreno,                    \* BOOLEAN
  m_readback_staging_buffer       \* BOOLEAN: the staging buffer is not VK_NULL_HANDLE

vars == <<alive, g_vulkan_context, m_swap_chain, m_window_info, m_display_texture,
          m_post_processing_chain, m_post_processing_stages,
          m_post_processing_input_texture, m_post_processing_ubo, surface_format,
          out_pixels, out_stride, out_format, call, ret, trace, chain_trace, surface_lost,
          device, m_is_adreno, m_readback_staging_buffer>>

\* ------------------------------------------------------------------ values
VK_SUCCESS == "VK_SUCCESS"
VK_SUBOPTIMAL_KHR == "VK_SUBOPTIMAL_KHR"
VK_ERROR_OUT_OF_DATE_KHR == "VK_ERROR_OUT_OF_DATE_KHR"
VK_ERROR_SURFACE_LOST_KHR == "VK_ERROR_SURFACE_LOST_KHR"
VK_ERROR_DEVICE_LOST == "VK_ERROR_DEVICE_LOST"
VK_TIMEOUT == "VK_TIMEOUT"

\* what vkAcquireNextImageKHR can answer
VkResults == {VK_SUCCESS, VK_SUBOPTIMAL_KHR, VK_ERROR_OUT_OF_DATE_KHR,
              VK_ERROR_SURFACE_LOST_KHR, VK_ERROR_DEVICE_LOST, VK_TIMEOUT}

Surfaceless == "Surfaceless"
WindowTypes == {Surfaceless, "X11"}

WindowInfo(type, w, h) == [type |-> type, surface_width |-> w, surface_height |-> h]
DefaultWindowInfo == WindowInfo(Surfaceless, 0, 0)
SurfaceDims == 1..MaxSurfaceDim
\* the windows a caller asks for
WindowInfos == {WindowInfo(t, w, 1) : t \in WindowTypes, w \in SurfaceDims}

Images == 0..(NumImages - 1)

SwapChain(wi, fmt, vsync, image) ==
  [exists |-> TRUE, wi |-> wi, format |-> fmt, vsync |-> vsync, image |-> image]
NullSwapChain ==
  [exists |-> FALSE, wi |-> DefaultWindowInfo, format |-> "VK_FORMAT_UNDEFINED",
   vsync |-> FALSE, image |-> 0]

\* one call on a collaborator: its name, a string argument and a number argument
Ev(op, arg, n) == [op |-> op, arg |-> arg, n |-> n]
E(op, arg) == Ev(op, arg, -1)

Call(op, wi, flag, w, h, pixels) ==
  [op |-> op, wi |-> wi, flag |-> flag, width |-> w, height |-> h, pixels |-> pixels,
   config |-> <<>>]
Call0(op) == Call(op, DefaultWindowInfo, FALSE, 0, 0, <<>>)

BoolStr(b) == IF b THEN "true" ELSE "false"

\* ----------------------------------------------------------------- device
\* 0x5143
QualcommVendorID == 20803
\* the vendor IDs of the adapters Context::Create can pick: Qualcomm, 0x10DE
VendorIDs == {QualcommVendorID, 4318}
VK_DRIVER_ID_QUALCOMM_PROPRIETARY == "VK_DRIVER_ID_QUALCOMM_PROPRIETARY"
DriverIDs == {VK_DRIVER_ID_QUALCOMM_PROPRIETARY, "VK_DRIVER_ID_MESA_TURNIP",
              "VK_DRIVER_ID_NVIDIA_PROPRIETARY"}
\* GetDeviceProperties().vendorID and GetDeviceDriverProperties().driverID
Device(vendorID, driverID) == [vendorID |-> vendorID, driverID |-> driverID]
Devices == {Device(v, d) : v \in VendorIDs, d \in DriverIDs}
DesktopDevice == Device(4318, "VK_DRIVER_ID_NVIDIA_PROPRIETARY")

IsAdreno_VendorOnly(dev) == dev.vendorID = QualcommVendorID

IsAdreno(dev) ==
  dev.vendorID = QualcommVendorID \/ dev.driverID = VK_DRIVER_ID_QUALCOMM_PROPRIETARY

\* aci.preferredFlags of the staging buffer
PreferredFlags(is_adreno) ==
  IF is_adreno
  THEN "VK_MEMORY_PROPERTY_HOST_CACHED_BIT | VK_MEMORY_PROPERTY_HOST_COHERENT_BIT"
  ELSE "VK_MEMORY_PROPERTY_HOST_CACHED_BIT"

\* ------------------------------------------------------- post-processing
Texture(w, h, fb) == [width |-> w, height |-> h, framebuffer |-> fb]
NoTexture == Texture(0, 0, FALSE)

PostProcessingStage(pipeline) == [pipeline |-> pipeline, output |-> NoTexture]

Shaders == [push : BOOLEAN]
Chains == UNION {[1..n -> Shaders] : n \in 0..MaxStages}

OutputNames == <<"output0", "output1", "output2", "output3">>
OutputName(i) == OutputNames[i + 1]

\* what the driver answers while render targets are (re)created: the first
\* creation that fails (0: the input texture, i: stage i's output, -1: none) and
\* whether the texture or its framebuffer failed
TargetFailures == [at : -1..(MaxStages - 1), kind : {"texture", "framebuffer"}]
NoTargetFailure == [at |-> -1, kind |-> "texture"]

\* one render target of CheckPostProcessingRenderTargets: kept when it already has
\* the target size, else its framebuffer is dropped and both are created again
CheckTarget(tex, tw, th, fails, kind) ==
  IF tex.width = tw /\ tex.height = th
  THEN [ok |-> TRUE, tex |-> tex]
  ELSE IF ~fails
  THEN [ok |-> TRUE, tex |-> Texture(tw, th, TRUE)]
  ELSE IF kind = "texture"
  THEN [ok |-> FALSE, tex |-> Texture(tex.width, tex.height, FALSE)]
  ELSE [ok |-> FALSE, tex |-> Texture(tw, th, FALSE)]

RECURSIVE CheckStageTargets(_, _, _, _, _, _)
CheckStageTargets(stages, i, target_count, tw, th, fail) ==
  IF i > target_count
  THEN [ok |-> TRUE, stages |-> stages]
  ELSE LET r == CheckTarget(stages[i].output, tw, th, fail.at = i, fail.kind)
           s == [stages EXCEPT ![i].output = r.tex]
       IN  IF r.ok
           THEN CheckStageTargets(s, i + 1, target_count, tw, th, fail)
           ELSE [ok |-> FALSE, stages |-> s]

CheckPostProcessingRenderTargets(input, stages, tw, th, fail) ==
  LET r == CheckTarget(input, tw, th, fail.at = 0, fail.kind)
  IN  IF ~r.ok
      THEN [ok |-> FALSE, input |-> r.tex, stages |-> stages]
      ELSE LET s == CheckStageTargets(stages, 1, Len(stages) - 1, tw, th, fail)
           IN  [ok |-> s.ok, input |-> r.tex, stages |-> s.stages]

\* RenderDisplay(left, top, ...): the display blit, skipped without a descriptor set
RenderDisplayBlit(ds_ok) ==
  IF ds_ok THEN <<E("Draw", "display")>> ELSE <<E("AllocateDescriptorSet", "failed")>>

\* the framebuffer stage i (0-based) of n renders to
StageFramebuffer(i, n, target_fb) == IF i # n - 1 THEN OutputName(i) ELSE target_fb

\* what the driver answers in the stage loop: the first stage (1-based, 0: none)
\* that gets no descriptor set ("ds") or no room in the uniform buffer ("ubo")
StageFailure(at, kind) == [at |-> at, kind |-> kind]
NoStageFailure == StageFailure(0, "ds")

Panic(msg) == E("Panic", msg)
Panicked(tr) == tr # <<>> /\ tr[Len(tr)].op = "Panic"

\* the stage loop of ApplyPostProcessingChain from stage i on, sampling `texture`
RECURSIVE ApplyStages(_, _, _, _, _, _)
ApplyStages(i, chain, n, texture, target_fb, sf) ==
  IF i >= n
  THEN <<>>
  ELSE LET begin == <<Ev("BeginRenderPass", StageFramebuffer(i, n, target_fb), i)>>
       IN  IF sf.at = i + 1 /\ sf.kind = "ds"
           THEN begin \o <<Ev("AllocateDescriptorSet", "failed", i)>>
           ELSE IF sf.at = i + 1 /\ sf.kind = "ubo" /\ ~chain[i + 1].push
           THEN begin \o <<Panic("Failed to reserve space in post-processing UBO")>>
           ELSE begin \o <<Ev("Draw", texture, i)>> \o
                (IF i # n - 1
                 THEN <<Ev("EndRenderPass", "", i)>> \o
                      ApplyStages(i + 1, chain, n, OutputName(i), target_fb, sf)
                 ELSE <<>>)

\* ApplyPostProcessingChain: the calls it records and the render targets it leaves
ApplyPostProcessingChain(target_fb, chain, input, stages, tw, th, fail, blit_ok, sf) ==
  LET c == CheckPostProcessingRenderTargets(input, stages, tw, th, fail)
  IN  IF ~c.ok
      THEN [input |-> c.input, stages |-> c.stages,
            tr |-> <<E("CheckPostProcessingRenderTargets", "false"),
                     E("BeginRenderPass", target_fb)>> \o RenderDisplayBlit(blit_ok)]
      ELSE [input |-> c.input, stages |-> c.stages,
            tr |-> <<E("CheckPostProcessingRenderTargets", "true"),
                     E("BeginRenderPass", "input")>> \o RenderDisplayBlit(blit_ok) \o
                   <<E("EndRenderPass", "")>> \o
                   ApplyStages(0, chain, Len(stages), "input", target_fb, sf)]

\* what the driver answers while one frame is drawn
DrawInput(fail, blit_ok, sf) == [fail |-> fail, blit_ok |-> blit_ok, sf |-> sf]
NoDrawInput == DrawInput(NoTargetFailure, TRUE, NoStageFailure)
\* the answers that matter for the chain installed now
DrawInputs ==
  IF ~m_display_texture
  THEN {NoDrawInput}
  ELSE IF m_post_processing_chain = <<>>
  THEN {DrawInput(NoTargetFailure, b, NoStageFailure) : b \in BOOLEAN}
  ELSE {DrawInput(f, b, sf) :
          f \in {NoTargetFailure} \cup
                {t \in TargetFailures : t.at >= 0 /\ t.at < Len(m_post_processing_stages)},
          b \in BOOLEAN,
          sf \in {NoStageFailure} \cup
                 {StageFailure(i, "ds") : i \in 1..Len(m_post_processing_stages)} \cup
                 {StageFailure(i, "ubo") :
                    i \in {k \in 1..Len(m_post_processing_chain) :
                             ~m_post_processing_chain[k].push}}}

\* RenderDisplay() and the same choice in RenderScreenshot: clear only, the chain,
\* or the plain blit; chain |-> the calls ApplyPostProcessingChain recorded
RenderDisplay(target_fb, tw, th, d) ==
  IF ~m_display_texture
  THEN [tr |-> <<E("BeginRenderPass", target_fb)>>, chain |-> <<>>,
        input |-> m_post_processing_input_texture, stages |-> m_post_processing_stages]
  ELSE IF m_post_processing_chain # <<>>
  THEN LET a == ApplyPostProcessingChain(target_fb, m_post_processing_chain,
                                         m_post_processing_input_texture,
                                         m_post_processing_stages, tw, th, d.fail,
                                         d.blit_ok, d.sf)
       IN  [tr |-> a.tr, chain |-> a.tr, input |-> a.input, stages |-> a.stages]
  ELSE [tr |-> <<E("BeginRenderPass", target_fb)>> \o RenderDisplayBlit(d.blit_ok),
        chain |-> <<>>,
        input |-> m_post_processing_input_texture, stages |-> m_post_processing_stages]

\* ------------------------------------------------------------------ Render
RenderSkips_IgnoresNullSwapChain(skip_present, sc) == skip_present

\* Render's early return
RenderSkips(skip_present, sc) == skip_present \/ ~sc.exists

AcquireNeedsResize_AlsoTimeout(res) ==
  res = VK_SUBOPTIMAL_KHR \/ res = VK_ERROR_OUT_OF_DATE_KHR \/ res = VK_TIMEOUT

\* the acquire results Render answers by resizing the swap chain and acquiring again
AcquireNeedsResize(res) == res = VK_SUBOPTIMAL_KHR \/ res = VK_ERROR_OUT_OF_DATE_KHR

\* the acquire result Render answers by recreating the surface and acquiring again
AcquireSurfaceLost(res) == res = VK_ERROR_SURFACE_LOST_KHR

AcquireFailed_OutOfDatePresented(res) ==
  res # VK_SUCCESS /\ res # VK_SUBOPTIMAL_KHR /\ res # VK_ERROR_OUT_OF_DATE_KHR

\* the result with which Render gives the frame up
AcquireFailed(res) == res # VK_SUCCESS /\ res # VK_SUBOPTIMAL_KHR

\* vkAcquireNextImageKHR: a successful acquire makes img the current image
Acquired(sc, res, img) ==
  IF res = VK_SUCCESS \/ res = VK_SUBOPTIMAL_KHR THEN [sc EXCEPT !.image = img] ELSE sc
AcquireNextImage(res, img) ==
  Ev("AcquireNextImage", res, IF res = VK_SUCCESS \/ res = VK_SUBOPTIMAL_KHR THEN img ELSE -1)

\* SwapChain::ResizeSwapChain and RecreateSurface: new images, the surface's size
Rebuilt(sc, wi) == [sc EXCEPT !.wi = wi, !.image = 0]

\* what the driver answers during one Render
RenderInput(res1, ok, w, res2, img1, img2, imgui, d) ==
  [res1 |-> res1, ok |-> ok, w |-> w, res2 |-> res2, img1 |-> img1, img2 |-> img2,
   imgui |-> imgui, d |-> d]
\* the answers Render reads: the second acquire only after a retry, the frame's
\* only when a frame is drawn
FrameInputs(res1, ok, w, res2, first) ==
  {RenderInput(res1, ok, w, res2, IF first THEN i ELSE 0, IF first THEN 0 ELSE i, g, d) :
     i \in Images, g \in BOOLEAN, d \in DrawInputs}
RetryInputs(res1) ==
  {RenderInput(res1, FALSE, 1, VK_SUCCESS, 0, 0, FALSE, NoDrawInput)}
  \cup UNION {IF AcquireFailed(r2)
              THEN {RenderInput(res1, TRUE, w, r2, 0, 0, FALSE, NoDrawInput)}
              ELSE FrameInputs(res1, TRUE, w, r2, FALSE) :
              w \in SurfaceDims, r2 \in VkResults}
RenderInputs(skip_present) ==
  IF RenderSkips(skip_present, m_swap_chain)
  THEN {RenderInput(VK_SUCCESS, TRUE, 1, VK_SUCCESS, 0, 0, g, NoDrawInput) : g \in BOOLEAN}
  ELSE UNION {IF r = VK_SUCCESS
              THEN FrameInputs(r, TRUE, 1, VK_SUCCESS, TRUE)
              ELSE IF AcquireNeedsResize(r) \/ AcquireSurfaceLost(r)
              THEN RetryInputs(r)
              ELSE IF AcquireFailed(r)
              THEN {RenderInput(r, TRUE, 1, VK_SUCCESS, 0, 0, FALSE, NoDrawInput)}
              ELSE FrameInputs(r, TRUE, 1, VK_SUCCESS, TRUE) :
              r \in VkResults}

RenderOut(r, sc, wi, al, lost, tr, rd) ==
  [ret |-> r, sc |-> sc, wi |-> wi, alive |-> al, lost |-> lost, tr |-> tr,
   chain |-> rd.chain, input |-> rd.input, stages |-> rd.stages]
NothingDrawn ==
  [chain |-> <<>>, input |-> m_post_processing_input_texture,
   stages |-> m_post_processing_stages]

\* the frame itself: lines 630-657, with the swap chain sc that holds the image
RenderFrame(pre, sc, wi, in) ==
  LET rd == RenderDisplay("swapchain", sc.wi.surface_width, sc.wi.surface_height, in.d)
      draw == pre \o <<E("TransitionToLayout", "COLOR_ATTACHMENT_OPTIMAL")>> \o rd.tr
  IN  IF Panicked(rd.tr)
      THEN RenderOut(FALSE, sc, wi, "aborted", surface_lost, draw, rd)
      ELSE
      RenderOut(TRUE, sc, wi, "alive", surface_lost,
                pre \o <<E("TransitionToLayout", "COLOR_ATTACHMENT_OPTIMAL")>> \o rd.tr \o
                (IF in.imgui THEN <<E("RenderImGui", "")>> ELSE <<>>) \o
                <<E("RenderSoftwareCursor", ""), E("EndRenderPass", ""),
                  E("TransitionToLayout", "PRESENT_SRC_KHR"),
                  Ev("SubmitCommandBuffer", "present", sc.image),
                  E("MoveToNextCommandBuffer", "")>>,
                rd)

\* lines 619-628 and on: give up on a failed acquire, else draw and present
RenderAfterAcquire(pre, sc, wi, res, in) ==
  IF AcquireFailed(res)
  THEN RenderOut(FALSE, sc, wi, "alive", surface_lost,
                 pre \o <<E("ExecuteCommandBuffer", "false")>>, NothingDrawn)
  ELSE RenderFrame(pre, sc, wi, in)

RenderResult(skip_present, in) ==
  IF RenderSkips(skip_present, m_swap_chain)
  THEN RenderOut(FALSE, m_swap_chain, m_window_info, "alive", surface_lost,
                 IF in.imgui THEN <<E("ImGui::Render", "")>> ELSE <<>>, NothingDrawn)
  ELSE
  LET pre == <<E("WaitForPresentComplete", ""), AcquireNextImage(in.res1, in.img1)>>
      sc1 == Acquired(m_swap_chain, in.res1, in.img1)
  IN
  IF in.res1 = VK_SUCCESS
  THEN RenderFrame(pre, sc1, m_window_info, in)
  ELSE IF AcquireNeedsResize(in.res1)
  THEN \* ResizeRenderWindow(0, 0)
       IF ~in.ok
       THEN RenderOut(FALSE, sc1, m_window_info, "aborted", surface_lost,
                      pre \o <<E("WaitForGPUIdle", ""), E("ResizeSwapChain", "failed"),
                               Panic("Failed to resize swap chain")>>, NothingDrawn)
       ELSE LET wi2 == [sc1.wi EXCEPT !.surface_width = in.w]
                sc2 == Rebuilt(sc1, wi2)
                tr2 == pre \o <<E("WaitForGPUIdle", ""), E("ResizeSwapChain", "ok"),
                                AcquireNextImage(in.res2, in.img2)>>
            IN  RenderAfterAcquire(tr2, Acquired(sc2, in.res2, in.img2), wi2, in.res2, in)
  ELSE IF AcquireSurfaceLost(in.res1)
  THEN IF ~in.ok
       THEN RenderOut(FALSE, NullSwapChain, m_window_info, "alive", TRUE,
                      pre \o <<E("RecreateSurface", "failed"),
                               E("ExecuteCommandBuffer", "false"),
                               E("m_swap_chain.reset", "")>>, NothingDrawn)
       ELSE LET sc2 == Rebuilt(sc1, [m_window_info EXCEPT !.surface_width = in.w])
                tr2 == pre \o <<E("RecreateSurface", "ok"), AcquireNextImage(in.res2, in.img2)>>
            IN  RenderAfterAcquire(tr2, Acquired(sc2, in.res2, in.img2), m_window_info,
                                   in.res2, in)
  ELSE RenderAfterAcquire(pre, sc1, m_window_info, in.res1, in)

\* ------------------------------------------------- the swap chain's owner
\* ChangeRenderWindow(new_wi); recreate_ok, surface_ok, create_ok and w are the
\* answers of RecreateSurface, CreateVulkanSurface, SwapChain::Create and the
\* width the surface reports; dropped is m_swap_chain after line 77
ChangeRenderWindowLines(new_wi, recreate_ok, surface_ok, create_ok, w, dropped) ==
  LET wait == <<E("WaitForGPUIdle", "")>>
      wi_copy == [new_wi EXCEPT !.surface_width = w]
  IN
  IF new_wi.type = Surfaceless
  THEN [ret |-> TRUE, sc |-> NullSwapChain, wi |-> new_wi,
        tr |-> wait \o <<E("ExecuteCommandBuffer", "true"), E("m_swap_chain.reset", "")>>]
  ELSE IF m_swap_chain.exists /\ recreate_ok
  THEN LET sc == Rebuilt(m_swap_chain, wi_copy)
       IN  [ret |-> TRUE, sc |-> sc, wi |-> sc.wi,
            tr |-> wait \o <<E("RecreateSurface", "ok")>>]
  ELSE
  LET tr1 == wait \o (IF m_swap_chain.exists
                      THEN <<E("RecreateSurface", "failed"), E("m_swap_chain.reset", "")>>
                      ELSE <<>>)
  IN
  IF ~surface_ok
  THEN [ret |-> FALSE, sc |-> dropped, wi |-> m_window_info,
        tr |-> tr1 \o <<E("CreateVulkanSurface", "failed")>>]
  ELSE IF ~create_ok
  THEN [ret |-> FALSE, sc |-> NullSwapChain, wi |-> m_window_info,
        tr |-> tr1 \o <<E("CreateVulkanSurface", "ok"), E("SwapChain::Create", "failed"),
                        E("DestroyVulkanSurface", "")>>]
  ELSE LET sc == SwapChain(wi_copy, surface_format, FALSE, 0)
       IN  [ret |-> TRUE, sc |-> sc, wi |-> sc.wi,
            tr |-> tr1 \o <<E("CreateVulkanSurface", "ok"), E("SwapChain::Create", "ok")>>]

ChangeRenderWindowResult_KeepsLostSwapChain(new_wi, recreate_ok, surface_ok, create_ok, w) ==
  ChangeRenderWindowLines(new_wi, recreate_ok, surface_ok, create_ok, w, m_swap_chain)

ChangeRenderWindowResult(new_wi, recreate_ok, surface_ok, create_ok, w) ==
  ChangeRenderWindowLines(new_wi, recreate_ok, surface_ok, create_ok, w, NullSwapChain)

DestructorTrace_ContextFirst ==
  <<E("WaitForGPUIdle", ""), E("DestroyStagingBuffer", ""), E("DestroyResources", ""),
    E("ShaderCache::Destroy", ""), E("Context::Destroy", ""), E("m_swap_chain.reset", "")>>

\* ~VulkanHostDisplay with a context: what it destroys, in order
DestructorTrace ==
  <<E("WaitForGPUIdle", ""), E("DestroyStagingBuffer", ""), E("DestroyResources", ""),
    E("ShaderCache::Destroy", ""), E("m_swap_chain.reset", ""), E("Context::Destroy", "")>>

\* ------------------------------------------------ SetPostProcessingChain
\* a config names shaders; a name that does not load makes the config unparsable
ConfigEntries == [push : BOOLEAN, valid : BOOLEAN]
Configs == UNION {[1..n -> ConfigEntries] : n \in 0..MaxStages}

\* PostProcessingChain::CreateFromString: the chain is replaced only by a config
\* that parses, to one shader per entry
CreateFromString(chain, config) ==
  IF config # <<>> /\ \A i \in 1..Len(config) : config[i].valid
  THEN [ok |-> TRUE, chain |-> [i \in 1..Len(config) |-> [push |-> config[i].push]]]
  ELSE [ok |-> FALSE, chain |-> chain]

\* what the driver answers while the stages are built: the first stage (1-based)
\* whose shader modules or pipeline fail (0: none) and whether the uniform buffer
\* can be created
StageFailures == [at : 0..MaxStages, kind : {"shader", "pipeline"}, ubo_ok : BOOLEAN]

OnlyUsePushConstants(chain) == \A i \in 1..Len(chain) : chain[i].push

\* SetPostProcessingChain; disabled is the chain left behind when a stage fails
SetPostProcessingChainLines(config, f, disabled) ==
  LET exec == <<E("ExecuteCommandBuffer", "true")>>
      parsed == CreateFromString(m_post_processing_chain, config)
      n == Len(parsed.chain)
      built == [i \in 1..n |-> PostProcessingStage(TRUE)]
      compiled(k) == [i \in 1..k |-> Ev("CreatePipeline", "ok", i - 1)]
  IN
  IF config = <<>>
  THEN [ret |-> TRUE, chain |-> <<>>, stages |-> <<>>, ubo |-> m_post_processing_ubo,
        tr |-> exec]
  ELSE IF ~parsed.ok
  THEN [ret |-> FALSE, chain |-> parsed.chain, stages |-> m_post_processing_stages,
        ubo |-> m_post_processing_ubo, tr |-> exec \o <<E("CreateFromString", "failed")>>]
  ELSE IF f.at >= 1 /\ f.at <= n
  THEN [ret |-> FALSE, chain |-> IF f.kind = "pipeline" THEN disabled ELSE <<>>,
        stages |-> <<>>, ubo |-> m_post_processing_ubo,
        tr |-> exec \o <<E("CreateFromString", "ok")>> \o compiled(f.at - 1) \o
               <<Ev("CreatePipeline", f.kind, f.at - 1)>>]
  ELSE IF ~OnlyUsePushConstants(parsed.chain) /\ ~m_post_processing_ubo /\ ~f.ubo_ok
  THEN [ret |-> FALSE, chain |-> <<>>, stages |-> <<>>, ubo |-> FALSE,
        tr |-> exec \o <<E("CreateFromString", "ok")>> \o compiled(n) \o
               <<E("m_post_processing_ubo.Create", "failed")>>]
  ELSE [ret |-> TRUE, chain |-> parsed.chain, stages |-> built,
        ubo |-> m_post_processing_ubo \/ ~OnlyUsePushConstants(parsed.chain),
        tr |-> exec \o <<E("CreateFromString", "ok")>> \o compiled(n)]

SetPostProcessingChainResult_KeepsChain(config, f) ==
  SetPostProcessingChainLines(config, f, CreateFromString(m_post_processing_chain, config).chain)

SetPostProcessingChainResult(config, f) == SetPostProcessingChainLines(config, f, <<>>)

\* -------------------------------------------------------- RenderScreenshot
VK_FORMAT_R8G8B8A8_UNORM == "VK_FORMAT_R8G8B8A8_UNORM"
VK_FORMAT_R8G8B8A8_SRGB == "VK_FORMAT_R8G8B8A8_SRGB"
VK_FORMAT_B8G8R8A8_UNORM == "VK_FORMAT_B8G8R8A8_UNORM"
VK_FORMAT_B8G8R8A8_SRGB == "VK_FORMAT_B8G8R8A8_SRGB"
VK_FORMAT_A1R5G5B5_UNORM_PACK16 == "VK_FORMAT_A1R5G5B5_UNORM_PACK16"
VK_FORMAT_R5G6B5_UNORM_PACK16 == "VK_FORMAT_R5G6B5_UNORM_PACK16"
VK_FORMAT_A2B10G10R10_UNORM_PACK32 == "VK_FORMAT_A2B10G10R10_UNORM_PACK32"

\* the formats a surface can give its swap chain
VkFormats ==
  {VK_FORMAT_R8G8B8A8_UNORM, VK_FORMAT_R8G8B8A8_SRGB, VK_FORMAT_B8G8R8A8_UNORM,
   VK_FORMAT_B8G8R8A8_SRGB, VK_FORMAT_A1R5G5B5_UNORM_PACK16,
   VK_FORMAT_R5G6B5_UNORM_PACK16, VK_FORMAT_A2B10G10R10_UNORM_PACK32}

SizeofU32 == 4
SizeofU16 == 2

\* std::vector<u32>::resize: kept elements, new ones zero
Resize(v, n) == [i \in 1..n |-> IF i <= Len(v) THEN v[i] ELSE 0]

ZeroFill_Skipped(v) == v

\* std::fill(begin, end, 0)
ZeroFill(v) == [i \in 1..Len(v) |-> 0]

\* what the copy of the read-back leaves in a vector element
PixelData == 255
\* values an element of the caller's vector holds before the call
OldPixelValues == {7}
PixelVectors == UNION {[1..n -> OldPixelValues] : n \in 0..MaxOldPixels}

\* the switch on the swap chain's format: the three outputs after it, from the
\* caller's vector, stride and format
ScreenshotOutputs(format, width, height, pixels, stride, fmt) ==
  IF format \in {VK_FORMAT_R8G8B8A8_UNORM, VK_FORMAT_R8G8B8A8_SRGB}
  THEN [format |-> "RGBA8", stride |-> SizeofU32 * width,
        pixels |-> Resize(pixels, width * height)]
  ELSE IF format \in {VK_FORMAT_B8G8R8A8_UNORM, VK_FORMAT_B8G8R8A8_SRGB}
  THEN [format |-> "BGRA8", stride |-> SizeofU32 * width,
        pixels |-> Resize(pixels, width * height)]
  ELSE IF format = VK_FORMAT_A1R5G5B5_UNORM_PACK16
  THEN [format |-> "RGBA5551", stride |-> SizeofU16 * width,
        pixels |-> Resize(pixels, ((width * height) + 1) \div 2)]
  ELSE IF format = VK_FORMAT_R5G6B5_UNORM_PACK16
  THEN [format |-> "RGB565", stride |-> SizeofU16 * width,
        pixels |-> Resize(pixels, ((width * height) + 1) \div 2)]
  ELSE [format |-> fmt, stride |-> stride, pixels |-> pixels]

\* what the driver answers during one RenderScreenshot
ScreenshotInput(tex_ok, rp_ok, fb_ok, staging_ok, d) ==
  [tex_ok |-> tex_ok, rp_ok |-> rp_ok, fb_ok |-> fb_ok, staging_ok |-> staging_ok, d |-> d]
ScreenshotInputs ==
  IF ~m_swap_chain.exists \/ ~m_display_texture
  THEN {ScreenshotInput(TRUE, TRUE, TRUE, TRUE, NoDrawInput)}
  ELSE {ScreenshotInput(FALSE, TRUE, TRUE, TRUE, NoDrawInput),
        ScreenshotInput(TRUE, FALSE, TRUE, TRUE, NoDrawInput),
        ScreenshotInput(TRUE, TRUE, FALSE, TRUE, NoDrawInput)}
       \cup {ScreenshotInput(TRUE, TRUE, TRUE, s, d) : s \in BOOLEAN, d \in DrawInputs}

ScreenshotOut(r, o, tr, rd) ==
  [ret |-> r, alive |-> IF Panicked(tr) THEN "aborted" ELSE "alive", pixels |-> o.pixels, stride |-> o.stride, format |-> o.format, tr |-> tr,
   chain |-> rd.chain, input |-> rd.input, stages |-> rd.stages,
   buffer |-> m_readback_staging_buffer]

\* DestroyStagingBuffer
DestroyStagingBuffer(buffer) == IF buffer THEN <<E("vmaDestroyBuffer", "")>> ELSE <<>>

\* CheckStagingBufferSize for a read-back of at least one byte:
\* m_readback_staging_buffer_size is never assigned anything but 0, so the buffer
\* is always destroyed and requested again, with the preferred flags as argument
CheckStagingBufferSize(buffer, is_adreno, staging_ok) ==
  [ok |-> staging_ok, buffer |-> staging_ok,
   tr |-> DestroyStagingBuffer(buffer) \o <<E("vmaCreateBuffer", PreferredFlags(is_adreno))>>]

\* DownloadTexture into out_pixels->data() with *out_stride
DownloadTexture(o, staging_ok) ==
  LET sb == CheckStagingBufferSize(m_readback_staging_buffer, m_is_adreno, staging_ok)
  IN
  IF ~sb.ok
  THEN [o |-> o, buffer |-> sb.buffer,
        tr |-> sb.tr \o <<E("CheckStagingBufferSize", "failed")>>]
  ELSE [o |-> [o EXCEPT !.pixels = IF o.stride = 0
                                   THEN o.pixels
                                   ELSE [i \in 1..Len(o.pixels) |-> PixelData]],
        buffer |-> sb.buffer,
        tr |-> sb.tr \o
               <<E("CheckStagingBufferSize", "ok"), E("vkCmdCopyImageToBuffer", ""),
                 E("ExecuteCommandBuffer", "true"), E("StrideMemCpy", "")>>]

ScreenshotNeedsSwapChain_Never(sc) == FALSE

\* if (!m_swap_chain) return false;
ScreenshotNeedsSwapChain(sc) == ~sc.exists

\* RenderScreenshot(width, height, out_pixels, out_stride, out_format); the caller's
\* vector is pixels, its stride and format are not initialised
RenderScreenshotResult(width, height, pixels, in) ==
  LET caller == [format |-> "unassigned", stride |-> 0, pixels |-> pixels]
  IN
  IF ScreenshotNeedsSwapChain(m_swap_chain)
  THEN ScreenshotOut(FALSE, caller, <<>>, NothingDrawn)
  ELSE
  LET o == ScreenshotOutputs(m_swap_chain.format, width, height, pixels, caller.stride,
                             caller.format)
  IN
  IF ~m_display_texture
  THEN ScreenshotOut(TRUE, [o EXCEPT !.pixels = ZeroFill(o.pixels)], <<>>, NothingDrawn)
  ELSE IF ~in.tex_ok
  THEN ScreenshotOut(FALSE, o, <<E("Texture::Create", "failed")>>, NothingDrawn)
  ELSE IF ~in.rp_ok
  THEN ScreenshotOut(FALSE, o, <<E("Texture::Create", "ok"), E("GetClearRenderPass", "failed")>>,
                     NothingDrawn)
  ELSE IF ~in.fb_ok
  THEN ScreenshotOut(FALSE, o, <<E("Texture::Create", "ok"), E("GetClearRenderPass", "ok"),
                                 E("CreateFramebuffer", "failed")>>, NothingDrawn)
  ELSE
  LET rd == RenderDisplay("screenshot", width, height, in.d)
      dl == DownloadTexture(o, in.staging_ok)
      draw == <<E("Texture::Create", "ok"), E("GetClearRenderPass", "ok"),
                E("CreateFramebuffer", "ok"),
                E("TransitionToLayout", "COLOR_ATTACHMENT_OPTIMAL")>> \o rd.tr
  IN  IF Panicked(rd.tr)
      THEN ScreenshotOut(FALSE, o, draw, rd)
      ELSE
      [ScreenshotOut(TRUE, dl.o, draw \o
                     <<E("EndRenderPass", ""), E("TransitionToLayout", "TRANSFER_SRC_OPTIMAL")>>
                     \o dl.tr \o <<E("vkDestroyFramebuffer", ""), E("Texture::Destroy", "")>>,
                     rd) EXCEPT !.buffer = dl.buffer]

\* ------------------------------------------------------------------ actions
Returns(c, r, tr, chain) ==
  /\ call' = c
  /\ ret' = r
  /\ trace' = tr
  /\ chain_trace' = chain

screenshot_vars == <<out_pixels, out_stride, out_format>>
pp_vars == <<m_post_processing_chain, m_post_processing_stages,
             m_post_processing_input_texture, m_post_processing_ubo>>

Ready == alive = "alive" /\ g_vulkan_context

\* a swap chain created by this step ends the surface-loss episode
LostAfter(sc) == IF sc.exists /\ ~m_swap_chain.exists THEN FALSE ELSE surface_lost

CreateRenderDevice ==
  /\ alive = "alive" /\ ~g_vulkan_context
  /\ \E wi \in WindowInfos, ok \in BOOLEAN, w \in SurfaceDims :
       IF ~ok
       THEN /\ m_window_info' = DefaultWindowInfo
            /\ UNCHANGED <<g_vulkan_context, m_swap_chain, m_is_adreno>>
            /\ Returns(Call("CreateRenderDevice", wi, FALSE, 0, 0, <<>>), FALSE,
                       <<E("Context::Create", "failed")>>, <<>>)
       ELSE LET sc == IF wi.type = Surfaceless
                      THEN NullSwapChain
                      ELSE SwapChain([wi EXCEPT !.surface_width = w], surface_format, FALSE, 0)
            IN  /\ g_vulkan_context' = TRUE
                /\ m_is_adreno' = IsAdreno(device)
                /\ m_swap_chain' = sc
                /\ m_window_info' = IF sc.exists THEN sc.wi ELSE wi
                /\ Returns(Call("CreateRenderDevice", wi, FALSE, 0, 0, <<>>), TRUE,
                           <<E("Context::Create", "ok"), E("ShaderCache::Create", "")>>, <<>>)
  /\ UNCHANGED <<device, m_readback_staging_buffer,
                 alive, m_display_texture, pp_vars, surface_format, screenshot_vars,
                 surface_lost>>

ChangeRenderWindow ==
  /\ Ready
  /\ \E new_wi \in WindowInfos, recreate_ok \in BOOLEAN, surface_ok \in BOOLEAN,
        create_ok \in BOOLEAN, w \in SurfaceDims :
       \E r \in {ChangeRenderWindowResult(new_wi, recreate_ok, surface_ok, create_ok, w)} :
           /\ m_swap_chain' = r.sc
           /\ m_window_info' = r.wi
           /\ surface_lost' = LostAfter(r.sc)
           /\ Returns(Call("ChangeRenderWindow", new_wi, FALSE, 0, 0, <<>>), r.ret, r.tr, <<>>)
  /\ UNCHANGED <<device, m_is_adreno, m_readback_staging_buffer,
                 alive, g_vulkan_context, m_display_texture, pp_vars, surface_format,
                 screenshot_vars>>

\* ResizeRenderWindow called by the host; without a swap chain the call dereferences
\* a null pointer and the process ends
ResizeRenderWindow ==
  /\ Ready
  /\ \E new_window_width \in SurfaceDims, ok \in BOOLEAN :
       LET c == Call("ResizeRenderWindow", DefaultWindowInfo, FALSE, new_window_width, 1, <<>>)
       IN
       IF ~m_swap_chain.exists
       THEN /\ alive' = "aborted"
            /\ UNCHANGED <<m_swap_chain, m_window_info>>
            /\ Returns(c, TRUE, <<E("WaitForGPUIdle", ""), E("null m_swap_chain", "")>>, <<>>)
       ELSE IF ~ok
       THEN /\ alive' = "aborted"
            /\ UNCHANGED <<m_swap_chain, m_window_info>>
            /\ Returns(c, TRUE, <<E("WaitForGPUIdle", ""), E("ResizeSwapChain", "failed"),
                                  Panic("Failed to resize swap chain")>>, <<>>)
       ELSE LET wi == [m_swap_chain.wi EXCEPT !.surface_width = new_window_width]
            IN  /\ alive' = "alive"
                /\ m_swap_chain' = Rebuilt(m_swap_chain, wi)
                /\ m_window_info' = wi
                /\ Returns(c, TRUE, <<E("WaitForGPUIdle", ""), E("ResizeSwapChain", "ok")>>,
                           <<>>)
  /\ UNCHANGED <<device, m_is_adreno, m_readback_staging_buffer,
                 g_vulkan_context, m_display_texture, pp_vars, surface_format,
                 screenshot_vars, surface_lost>>

DestroyRenderSurface ==
  /\ Ready
  /\ m_window_info' = [m_window_info EXCEPT !.type = Surfaceless]
  /\ m_swap_chain' = NullSwapChain
  /\ Returns(Call0("DestroyRenderSurface"), TRUE,
             <<E("WaitForGPUIdle", ""), E("m_swap_chain.reset", "")>>, <<>>)
  /\ UNCHANGED <<device, m_is_adreno, m_readback_staging_buffer,
                 alive, g_vulkan_context, m_display_texture, pp_vars, surface_format,
                 screenshot_vars, surface_lost>>

SetVSync ==
  /\ Ready
  /\ \E enabled \in BOOLEAN :
       IF ~m_swap_chain.exists
       THEN /\ UNCHANGED m_swap_chain
            /\ Returns(Call("SetVSync", DefaultWindowInfo, enabled, 0, 0, <<>>), TRUE, <<>>, <<>>)
       ELSE /\ m_swap_chain' = [m_swap_chain EXCEPT !.vsync = enabled]
            /\ Returns(Call("SetVSync", DefaultWindowInfo, enabled, 0, 0, <<>>), TRUE,
                       <<E("WaitForGPUIdle", ""), E("SetVSync", BoolStr(enabled))>>, <<>>)
  /\ UNCHANGED <<device, m_is_adreno, m_readback_staging_buffer,
                 alive, g_vulkan_context, m_window_info, m_display_texture, pp_vars,
                 surface_format, screenshot_vars, surface_lost>>

Render ==
  /\ Ready
  /\ \E skip_present \in BOOLEAN : \E in \in RenderInputs(skip_present) :
       \E r \in {RenderResult(skip_present, in)} :
           /\ alive' = r.alive
           /\ m_swap_chain' = r.sc
           /\ m_window_info' = r.wi
           /\ surface_lost' = r.lost
           /\ m_post_processing_input_texture' = r.input
           /\ m_post_processing_stages' = r.stages
           /\ Returns(Call("Render", DefaultWindowInfo, skip_present, 0, 0, <<>>), r.ret,
                      r.tr, r.chain)
  /\ UNCHANGED <<device, m_is_adreno, m_readback_staging_buffer,
                 g_vulkan_context, m_display_texture, m_post_processing_chain,
                 m_post_processing_ubo, surface_format, screenshot_vars>>

\* ~VulkanHostDisplay
Destructor ==
  /\ alive = "alive"
  /\ alive' = "destroyed"
  /\ IF ~g_vulkan_context
     THEN /\ UNCHANGED <<g_vulkan_context, m_swap_chain, pp_vars, m_readback_staging_buffer>>
          /\ Returns(Call0("~VulkanHostDisplay"), TRUE, <<>>, <<>>)
     ELSE /\ g_vulkan_context' = FALSE
          /\ m_readback_staging_buffer' = FALSE
          /\ m_swap_chain' = NullSwapChain
          /\ m_post_processing_chain' = <<>>
          /\ m_post_processing_stages' = <<>>
          /\ m_post_processing_input_texture' = NoTexture
          /\ m_post_processing_ubo' = FALSE
          /\ Returns(Call0("~VulkanHostDisplay"), TRUE, DestructorTrace, <<>>)
  /\ UNCHANGED <<device, m_is_adreno,
                 m_window_info, m_display_texture, surface_format, screenshot_vars,
                 surface_lost>>

\* HostDisplay::SetDisplayTexture / ClearDisplayTexture of the base class
SetDisplayTexture ==
  /\ Ready
  /\ \E texture \in BOOLEAN :
       /\ m_display_texture' = texture
       /\ Returns(Call("SetDisplayTexture", DefaultWindowInfo, texture, 0, 0, <<>>), TRUE,
                  <<>>, <<>>)
  /\ UNCHANGED <<device, m_is_adreno, m_readback_staging_buffer,
                 alive, g_vulkan_context, m_swap_chain, m_window_info, pp_vars,
                 surface_format, screenshot_vars, surface_lost>>

SetPostProcessingChain ==
  /\ Ready
  /\ \E config \in Configs, f \in StageFailures :
       \E r \in {SetPostProcessingChainResult(config, f)} :
           /\ m_post_processing_chain' = r.chain
           /\ m_post_processing_stages' = r.stages
           /\ m_post_processing_ubo' = r.ubo
           /\ Returns([Call0("SetPostProcessingChain") EXCEPT !.config = config], r.ret,
                      r.tr, <<>>)
  /\ UNCHANGED <<device, m_is_adreno, m_readback_staging_buffer,
                 alive, g_vulkan_context, m_swap_chain, m_window_info, m_display_texture,
                 m_post_processing_input_texture, surface_format, screenshot_vars,
                 surface_lost>>

RenderScreenshot ==
  /\ Ready
  /\ \E width \in 1..MaxShotWidth, height \in 1..MaxShotHeight, pixels \in PixelVectors :
       \E in \in ScreenshotInputs :
         \E r \in {RenderScreenshotResult(width, height, pixels, in)} :
           /\ alive' = r.alive
           /\ out_pixels' = r.pixels
           /\ out_stride' = r.stride
           /\ out_format' = r.format
           /\ m_readback_staging_buffer' = r.buffer
           /\ m_post_processing_input_texture' = r.input
           /\ m_post_processing_stages' = r.stages
           /\ Returns(Call("RenderScreenshot", DefaultWindowInfo, FALSE, width, height, pixels),
                      r.ret, r.tr, r.chain)
  /\ UNCHANGED <<device, m_is_adreno,
                 g_vulkan_context, m_swap_chain, m_window_info, m_display_texture,
                 m_post_processing_chain, m_post_processing_ubo, surface_format,
                 surface_lost>>

\* --------------------------------------------------------- specifications

\* a display just constructed, before CreateRenderDevice, on a machine whose
\* adapter is dev
Constructed(dev) ==
  /\ alive = "alive"
  /\ g_vulkan_context = FALSE
  /\ m_swap_chain = NullSwapChain
  /\ m_window_info = DefaultWindowInfo
  /\ m_display_texture = FALSE
  /\ m_post_processing_chain = <<>>
  /\ m_post_processing_stages = <<>>
  /\ m_post_processing_input_texture = NoTexture
  /\ m_post_processing_ubo = FALSE
  /\ surface_format = VK_FORMAT_B8G8R8A8_UNORM
  /\ out_pixels = <<>>
  /\ out_stride = 0
  /\ out_format = "unassigned"
  /\ call = Call0("VulkanHostDisplay")
  /\ ret = TRUE
  /\ trace = <<>>
  /\ chain_trace = <<>>
  /\ surface_lost = FALSE
  /\ device = dev
  /\ m_is_adreno = FALSE
  /\ m_readback_staging_buffer = FALSE

Init == Constructed(DesktopDevice)

Next ==
  \/ CreateRenderDevice
  \/ ChangeRenderWindow
  \/ ResizeRenderWindow
  \/ DestroyRenderSurface
  \/ SetVSync
  \/ Render
  \/ Destructor
  \/ SetDisplayTexture

Spec == Init /\ [][Next]_vars

\* a display whose device was created on a window, with a swap chain of format
\* fmt, after SetPostProcessingChain installed chain and a display texture was set
Created(fmt, chain, texture) ==
  /\ alive = "alive"
  /\ g_vulkan_context = TRUE
  /\ m_swap_chain = SwapChain(WindowInfo("X11", 1, 1), fmt, FALSE, 0)
  /\ m_window_info = WindowInfo("X11", 1, 1)
  /\ m_display_texture = texture
  /\ m_post_processing_chain = chain
  /\ m_post_processing_stages = [i \in 1..Len(chain) |-> PostProcessingStage(TRUE)]
  /\ m_post_processing_input_texture = NoTexture
  /\ m_post_processing_ubo = ~OnlyUsePushConstants(chain)
  /\ surface_format = fmt
  /\ out_pixels = <<>>
  /\ out_stride = 0
  /\ out_format = "unassigned"
  /\ call = Call("CreateRenderDevice", WindowInfo("X11", 1, 1), FALSE, 0, 0, <<>>)
  /\ ret = TRUE
  /\ trace = <<E("Context::Create", "ok"), E("ShaderCache::Create", "")>>
  /\ chain_trace = <<>>
  /\ surface_lost = FALSE
  /\ device = DesktopDevice
  /\ m_is_adreno = IsAdreno(DesktopDevice)
  /\ m_readback_staging_buffer = FALSE

\* installing post-processing chains
InitChain == Created(VK_FORMAT_B8G8R8A8_UNORM, <<>>, FALSE)

NextChain ==
  \/ SetPostProcessingChain
  \/ SetDisplayTexture
  \/ Destructor

SpecChain == InitChain /\ [][NextChain]_vars

\* screenshots through an installed post-processing chain
InitApply == \E chain \in Chains \ {<<>>} : Created(VK_FORMAT_B8G8R8A8_UNORM, chain, TRUE)

NextApply ==
  \/ RenderScreenshot
  \/ SetDisplayTexture

SpecApply == InitApply /\ [][NextApply]_vars

\* screenshots of swap chains of every format
InitScreenshot == \E fmt \in VkFormats : Created(fmt, <<>>, FALSE)

NextScreenshot ==
  \/ RenderScreenshot
  \/ SetDisplayTexture
  \/ DestroyRenderSurface

SpecScreenshot == InitScreenshot /\ [][NextScreenshot]_vars

\* read-backs on every device
InitReadback == \E dev \in Devices : Constructed(dev)

NextReadback ==
  \/ CreateRenderDevice
  \/ SetDisplayTexture
  \/ RenderScreenshot
  \/ Destructor

SpecReadback == InitReadback /\ [][NextReadback]_vars

\* ------------------------------------------------------------------ claims
Indices(tr, op) == {i \in 1..Len(tr) : tr[i].op = op}
Min(S) == CHOOSE x \in S : \A y \in S : x <= y
Max(S) == CHOOSE x \in S : \A y \in S : x >= y
Acquires == Indices(trace, "AcquireNextImage")
Has(tr, e) == \E i \in 1..Len(tr) : tr[i] = e
Between(tr, i, j, e) == \E k \in (i + 1)..(j - 1) : tr[k] = e

\* C1: one Render acquires at most twice; a second acquire follows only a first
\* that answered SUBOPTIMAL or OUT_OF_DATE (with the swap chain resized in between)
\* or SURFACE_LOST (with the surface recreated in between); a second acquire that
\* answers neither SUCCESS nor SUBOPTIMAL ends the call with false
C1_BoundedAcquireRetry ==
  call.op = "Render" =>
    /\ Cardinality(Acquires) <= 2
    /\ Cardinality(Acquires) = 2 =>
         LET i == Min(Acquires)
             j == Max(Acquires)
         IN  /\ \/ /\ trace[i].arg \in {VK_SUBOPTIMAL_KHR, VK_ERROR_OUT_OF_DATE_KHR}
                   /\ Between(trace, i, j, E("ResizeSwapChain", "ok"))
                \/ /\ trace[i].arg = VK_ERROR_SURFACE_LOST_KHR
                   /\ Between(trace, i, j, E("RecreateSurface", "ok"))
             /\ trace[j].arg \notin {VK_SUCCESS, VK_SUBOPTIMAL_KHR} =>
                  ~ret /\ trace[Len(trace)] = E("ExecuteCommandBuffer", "false")

C1_Witness ==
  /\ call.op = "Render"
  /\ Cardinality(Acquires) = 2
  /\ trace[Min(Acquires)].arg = VK_SUBOPTIMAL_KHR
  /\ trace[Max(Acquires)].arg = VK_ERROR_OUT_OF_DATE_KHR
  /\ ~ret

RecreateFailedInRender == call.op = "Render" /\ Has(trace, E("RecreateSurface", "failed"))

\* C2: a Render whose surface recreation fails returns false and leaves no swap
\* chain; from then until ChangeRenderWindow creates one, no swap chain exists and
\* every Render returns false without acquiring
C2_SurfaceLossRecovery ==
  /\ RecreateFailedInRender => ~ret /\ ~m_swap_chain.exists /\ surface_lost
  /\ surface_lost =>
       /\ ~m_swap_chain.exists
       /\ call.op = "Render" => ~ret /\ (RecreateFailedInRender \/ Acquires = {})

C2_Witness ==
  /\ surface_lost
  /\ call.op = "Render"
  /\ ~call.flag
  /\ Acquires = {}
  /\ ~ret

Submits == Indices(trace, "SubmitCommandBuffer")

\* C3: Render returns true only after a last acquire that answered SUCCESS or
\* SUBOPTIMAL, and then ends by submitting the command buffer for presentation
\* with the image that acquire made current and moving to the next command
\* buffer; a Render that returns false submits nothing for presentation
C3_PresentIffTrue ==
  call.op = "Render" =>
    /\ ret =>
         /\ Acquires # {}
         /\ trace[Max(Acquires)].arg \in {VK_SUCCESS, VK_SUBOPTIMAL_KHR}
         /\ Submits = {Len(trace) - 1}
         /\ trace[Len(trace) - 1] = Ev("SubmitCommandBuffer", "present", trace[Max(Acquires)].n)
         /\ trace[Len(trace) - 1].n = m_swap_chain.image
         /\ trace[Len(trace)] = E("MoveToNextCommandBuffer", "")
    /\ ~ret => Submits = {}

C3_Witness ==
  /\ call.op = "Render"
  /\ ret
  /\ Cardinality(Acquires) = 2
  /\ trace[Max(Acquires)].arg = VK_SUBOPTIMAL_KHR
  /\ m_swap_chain.image = 1

\* the calls that reset, resize or reconfigure m_swap_chain in the operations C4 lists
ChangesSwapChain(e) ==
  \/ e.op \in {"m_swap_chain.reset", "ResizeSwapChain", "SetVSync"}
  \/ e.op = "RecreateSurface" /\ call.op = "ChangeRenderWindow"
WaitsForGPU(e) == e = E("WaitForGPUIdle", "") \/ e = E("ExecuteCommandBuffer", "true")
SubmitsCommands(e) == e.op \in {"ExecuteCommandBuffer", "SubmitCommandBuffer"}

\* C4: in every operation, each reset or change of the swap chain comes after a
\* wait for GPU completion with no command submission between the two
C4_WaitBeforeSwapChainChange ==
  \A j \in 1..Len(trace) :
    ChangesSwapChain(trace[j]) =>
      \E i \in 1..(j - 1) :
        /\ WaitsForGPU(trace[i])
        /\ \A k \in (i + 1)..(j - 1) : ~SubmitsCommands(trace[k])

\* C5: ChangeRenderWindow with a Surfaceless window returns true, leaves no swap
\* chain and stores the requested window; with another window, true means a swap
\* chain exists whose window info m_window_info equals, and false means no swap
\* chain exists and m_window_info is what it was
C5_ChangeRenderWindowOutcome ==
  [][call'.op = "ChangeRenderWindow" =>
       /\ call'.wi.type = Surfaceless =>
            ret' /\ ~m_swap_chain'.exists /\ m_window_info' = call'.wi
       /\ call'.wi.type # Surfaceless /\ ret' =>
            m_swap_chain'.exists /\ m_window_info' = m_swap_chain'.wi
       /\ call'.wi.type # Surfaceless /\ ~ret' =>
            ~m_swap_chain'.exists /\ m_window_info' = m_window_info]_vars

C5_Witness ==
  /\ call.op = "ChangeRenderWindow"
  /\ call.wi.type # Surfaceless
  /\ ~ret
  /\ Has(trace, E("m_swap_chain.reset", ""))
  /\ ~m_swap_chain.exists
  /\ m_window_info.type # Surfaceless
  /\ m_window_info.surface_width # call.wi.surface_width

Pos(tr, op) == Min(Indices(tr, op))
DestructionOrder ==
  <<"WaitForGPUIdle", "DestroyStagingBuffer", "DestroyResources", "ShaderCache::Destroy",
    "m_swap_chain.reset", "Context::Destroy">>

\* C6: with a context, the destructor waits for GPU idle, then destroys the staging
\* buffer, the display resources, the shader cache, the swap chain and last the
\* context, and leaves neither context nor swap chain; without one it destroys
\* nothing
C6_DestructionOrder ==
  [][call'.op = "~VulkanHostDisplay" =>
       IF g_vulkan_context
       THEN /\ \A n \in 1..Len(DestructionOrder) :
                 Cardinality(Indices(trace', DestructionOrder[n])) = 1
            /\ \A n \in 1..(Len(DestructionOrder) - 1) :
                 Pos(trace', DestructionOrder[n]) < Pos(trace', DestructionOrder[n + 1])
            /\ Len(trace') = Len(DestructionOrder)
            /\ ~g_vulkan_context'
            /\ ~m_swap_chain'.exists
       ELSE /\ trace' = <<>>
            /\ UNCHANGED <<g_vulkan_context, m_swap_chain, pp_vars>>]_vars

C6_Witness ==
  /\ alive = "destroyed"
  /\ call.op = "~VulkanHostDisplay"
  /\ Has(trace, E("Context::Destroy", ""))
  /\ ~g_vulkan_context
  /\ ~m_swap_chain.exists

\* the framebuffer the caller of ApplyPostProcessingChain handed in
TargetFramebuffer == IF call.op = "Render" THEN "swapchain" ELSE "screenshot"
\* ApplyPostProcessingChain ran, found its render targets and returned
ChainApplied ==
  /\ alive = "alive"
  /\ chain_trace # <<>>
  /\ chain_trace[1] = E("CheckPostProcessingRenderTargets", "true")
At(tr, k, e) == k >= 1 /\ k <= Len(tr) /\ tr[k] = e

\* C7: with its render targets available, ApplyPostProcessingChain first records
\* the display blit's render pass on the input texture and ends it, then runs
\* the N stages in index order, three calls each: stage i begins a render pass
\* (on its own output framebuffer, the final stage on the target framebuffer),
\* draws sampling the input texture (i = 0) or stage i-1's output, and, unless
\* final, ends the pass; only the final stage touches the target framebuffer
\* and its pass is the last thing recorded, left open
C7_ChainDataFlow ==
  ChainApplied =>
    LET N == Len(m_post_processing_stages)
    IN  /\ N >= 1
        /\ At(chain_trace, 2, E("BeginRenderPass", "input"))
        /\ At(chain_trace, 4, E("EndRenderPass", ""))
        /\ \A i \in 0..(N - 1) :
             /\ At(chain_trace, 5 + 3 * i,
                   Ev("BeginRenderPass", IF i = N - 1 THEN TargetFramebuffer ELSE OutputName(i), i))
             /\ At(chain_trace, 6 + 3 * i,
                   Ev("Draw", IF i = 0 THEN "input" ELSE OutputName(i - 1), i))
             /\ i # N - 1 => At(chain_trace, 7 + 3 * i, Ev("EndRenderPass", "", i))
        /\ {k \in 1..Len(chain_trace) : chain_trace[k].arg = TargetFramebuffer} = {5 + 3 * (N - 1)}
        /\ Len(chain_trace) = 6 + 3 * (N - 1)

StagesAgree ==
  \/ m_post_processing_chain = <<>>
  \/ /\ Len(m_post_processing_stages) = Len(m_post_processing_chain)
     /\ \A i \in 1..Len(m_post_processing_stages) : m_post_processing_stages[i].pipeline
PostProcessingDisabled == m_post_processing_chain = <<>> /\ m_post_processing_stages = <<>>
FailedAfterParsing ==
  /\ Has(trace, E("CreateFromString", "ok"))
  /\ \/ \E k \in 1..Len(trace) :
          trace[k].op = "CreatePipeline" /\ trace[k].arg \in {"shader", "pipeline"}
     \/ Has(trace, E("m_post_processing_ubo.Create", "failed"))

MatchingFormat(format) ==
  IF format \in {VK_FORMAT_R8G8B8A8_UNORM, VK_FORMAT_R8G8B8A8_SRGB} THEN "RGBA8"
  ELSE IF format \in {VK_FORMAT_B8G8R8A8_UNORM, VK_FORMAT_B8G8R8A8_SRGB} THEN "BGRA8"
  ELSE IF format = VK_FORMAT_A1R5G5B5_UNORM_PACK16 THEN "RGBA5551"
  ELSE IF format = VK_FORMAT_R5G6B5_UNORM_PACK16 THEN "RGB565"
  ELSE "none"
BytesPerPixel(gpu_format) == IF gpu_format \in {"RGBA8", "BGRA8"} THEN 4 ELSE 2

\* C9: when RenderScreenshot has returned true, *out_format and *out_stride hold
\* the values that match the swap chain's format and out_pixels holds at least
\* stride x height bytes
C9_ScreenshotOutputsAssigned ==
  call.op = "RenderScreenshot" /\ ret =>
    /\ out_format # "unassigned"
    /\ out_format = MatchingFormat(m_swap_chain.format)
    /\ out_stride = BytesPerPixel(out_format) * call.width
    /\ SizeofU32 * Len(out_pixels) >= out_stride * call.height

\* C10: RenderScreenshot with a swap chain and no display texture returns true
\* with every element of out_pixels zero and has called nothing on the GPU
C10_DisplayOffWritesZeros ==
  call.op = "RenderScreenshot" /\ m_swap_chain.exists /\ ~m_display_texture =>
    /\ ret
    /\ \A i \in 1..Len(out_pixels) : out_pixels[i] = 0
    /\ trace = <<>>

C10_Witness ==
  /\ call.op = "RenderScreenshot"
  /\ m_swap_chain.exists
  /\ ~m_display_texture
  /\ ret
  /\ call.pixels # <<>>
  /\ call.pixels[1] # 0
  /\ Len(out_pixels) = call.width * call.height

\* C11: RenderScreenshot without a swap chain returns false, leaves the caller's
\* vector, stride and format as they were passed in and has called nothing on
\* the GPU
C11_NoSwapChainNoScreenshot ==
  call.op = "RenderScreenshot" /\ ~m_swap_chain.exists =>
    /\ ~ret
    /\ out_pixels = call.pixels
    /\ out_stride = 0
    /\ out_format = "unassigned"
    /\ trace = <<>>
    /\ chain_trace = <<>>

C11_Witness ==
  /\ call.op = "RenderScreenshot"
  /\ ~m_swap_chain.exists
  /\ ~ret
  /\ call.pixels # <<>>
  /\ out_pixels = call.pixels
  /\ call.width * call.height > Len(call.pixels)

\* the requests for a staging buffer the last method made
StagingRequests == {k \in 1..Len(trace) : trace[k].op = "vmaCreateBuffer"}
PrefersHostCoherent(e) ==
  e.arg = "VK_MEMORY_PROPERTY_HOST_CACHED_BIT | VK_MEMORY_PROPERTY_HOST_COHERENT_BIT"
PrefersOnlyHostCached(e) == e.arg = "VK_MEMORY_PROPERTY_HOST_CACHED_BIT"
\* vendor ID 0x5143 or the Qualcomm proprietary driver
AdrenoDevice ==
  device.vendorID = 20803 \/ device.driverID = "VK_DRIVER_ID_QUALCOMM_PROPRIETARY"

\* C12: every request for the read-back staging buffer prefers HOST_CACHED, and
\* HOST_COHERENT with it if and only if the device the context was created on
\* has vendor ID 0x5143 or the Qualcomm proprietary driver, which is what
\* CreateRenderDevice stored in m_is_adreno
C12_AdrenoPrefersHostCoherent ==
  /\ g_vulkan_context => (m_is_adreno <=> AdrenoDevice)
  /\ \A k \in StagingRequests :
       /\ PrefersHostCoherent(trace[k]) <=> AdrenoDevice
       /\ ~AdrenoDevice => PrefersOnlyHostCached(trace[k])

C12_Witness ==
  /\ call.op = "RenderScreenshot"
  /\ device.vendorID # 20803
  /\ device.driverID = "VK_DRIVER_ID_QUALCOMM_PROPRIETARY"
  /\ \E k \in StagingRequests : PrefersHostCoherent(trace[k])
  /\ m_readback_staging_buffer
====
